---- MODULE Spec2Model ----
(***************************************************************************)
(* Borovkov Protocol (borovkov_protocol.py, cli.py): identity persistence  *)
(* for agents by HMAC-SHA256 over a secret seed.                           *)
(*                                                                         *)
(* A Python str is a sequence of characters, each character a one-letter   *)
(* TLA+ string.  Two kinds of element stand for more than themselves:      *)
(*   "U+00E9"   the non-ASCII character e-acute (two bytes in UTF-8);      *)
(*   "H(k,m)"   the 64 lowercase hexadecimal characters of the HMAC-SHA256 *)
(*              digest of message bytes m under key bytes k.  The MAC is   *)
(*              treated as collision-free: different (k, m) give different *)
(*              blocks, and no block equals a string typed in by hand.     *)
(***************************************************************************)
EXTENDS Naturals, Sequences, FiniteSets, TLC

VARIABLES bp, clock, call

vars == <<bp, clock, call>>

(***************************************************************************)
(* Bounds of the model.                                                    *)
(***************************************************************************)
MaxSeedLen == 4
MaxClock == 1
MaxChain == 2

(***************************************************************************)
(* Program constants.                                                      *)
(***************************************************************************)
MIN_SEED_LEN == 3

DIGEST_HEX_LEN == 64

VERSION == <<"1", ".", "1", ".", "0">>

I_EXIST == <<"I", " ", "e", "x", "i", "s", "t">>

(***************************************************************************)
(* Characters and UTF-8.                                                   *)
(***************************************************************************)
NonAscii == {"U+00E9"}

IsAscii(s) == \A i \in 1..Len(s) : s[i] \notin NonAscii

Utf8Char(ch) == IF ch = "U+00E9" THEN <<"<C3>", "<A9>">> ELSE <<ch>>

RECURSIVE encode(_)
encode(s) == IF s = <<>> THEN <<>> ELSE Utf8Char(Head(s)) \o encode(Tail(s))

RECURSIVE Flat(_)
Flat(b) == IF b = <<>> THEN "" ELSE Head(b) \o Flat(Tail(b))

(***************************************************************************)
(* hmac.new(key, msg, hashlib.sha256).hexdigest(): one block of 64 hex     *)
(* characters, named by the key bytes and the message bytes.               *)
(***************************************************************************)
hmac_hexdigest(key, msg) == << "H(" \o Flat(key) \o "," \o Flat(msg) \o ")" >>

(***************************************************************************)
(* Results of a call: a returned value or a raised exception.              *)
(***************************************************************************)
Ok(v) == [raised |-> "none", ret |-> v]

Raise(e) == [raised |-> e, ret |-> <<>>]

(***************************************************************************)
(* hmac.compare_digest(a, b) on two str: TypeError when either holds a     *)
(* non-ASCII character, else whether they are equal.                       *)
(***************************************************************************)
compare_digest(a, b) ==
    IF ~IsAscii(a) \/ ~IsAscii(b) THEN Raise("TypeError") ELSE Ok(a = b)

(***************************************************************************)
(* json.dumps(d, sort_keys=True) with the default separators ", " and ": " *)
(* and ensure_ascii=True.  A dict is the sequence of its items as written, *)
(* an item [k, t, v] with t the type of the value: "str", "int" or "obj".  *)
(***************************************************************************)
Letters == <<"a", "b", "c", "d", "e", "f", "g", "h", "i", "j", "k", "l", "m",
             "n", "o", "p", "q", "r", "s", "t", "u", "v", "w", "x", "y", "z">>

CodePoint(ch) ==
    IF ch = "_" THEN 95
    ELSE 96 + (CHOOSE i \in 1..Len(Letters) : Letters[i] = ch)

RECURSIVE LexLess(_, _)
LexLess(a, b) ==
    IF b = <<>> THEN FALSE
    ELSE IF a = <<>> THEN TRUE
    ELSE IF Head(a) = Head(b) THEN LexLess(Tail(a), Tail(b))
    ELSE CodePoint(Head(a)) < CodePoint(Head(b))

Remove(items, i) == SubSeq(items, 1, i - 1) \o SubSeq(items, i + 1, Len(items))

RECURSIVE SortKeys(_)
SortKeys(items) ==
    IF items = <<>> THEN <<>>
    ELSE LET i == CHOOSE j \in 1..Len(items) :
                     \A l \in 1..Len(items) : ~LexLess(items[l].k, items[j].k)
         IN  <<items[i]>> \o SortKeys(Remove(items, i))

EscapeChar(ch) ==
    IF ch = "\"" THEN <<"\\", "\"">>
    ELSE IF ch = "\\" THEN <<"\\", "\\">>
    ELSE IF ch = "U+00E9" THEN <<"\\", "u", "0", "0", "e", "9">>
    ELSE <<ch>>

RECURSIVE Escape(_)
Escape(s) == IF s = <<>> THEN <<>> ELSE EscapeChar(Head(s)) \o Escape(Tail(s))

json_str(s) == <<"\"">> \o Escape(s) \o <<"\"">>

Digits == <<"0", "1", "2", "3", "4", "5", "6", "7", "8", "9">>

RECURSIVE json_int(_)
json_int(n) ==
    IF n < 10 THEN <<Digits[n + 1]>>
    ELSE json_int(n \div 10) \o <<Digits[(n % 10) + 1]>>

RECURSIVE json_dumps(_)

json_value(item) ==
    IF item.t = "str" THEN json_str(item.v)
    ELSE IF item.t = "int" THEN json_int(item.v)
    ELSE json_dumps(item.v)

RECURSIVE json_items(_)
json_items(items) ==
    IF items = <<>> THEN <<>>
    ELSE json_str(Head(items).k) \o <<":", " ">> \o json_value(Head(items))
         \o (IF Tail(items) = <<>> THEN <<>> ELSE <<",", " ">>)
         \o json_items(Tail(items))

json_dumps(d) == <<"{">> \o json_items(SortKeys(d)) \o <<"}">>

Str(k, v) == [k |-> k, t |-> "str", v |-> v]

Int(k, v) == [k |-> k, t |-> "int", v |-> v]

Obj(k, v) == [k |-> k, t |-> "obj", v |-> v]

(***************************************************************************)
(* Field names of the signed payloads.                                     *)
(***************************************************************************)
k_title == <<"t", "i", "t", "l", "e">>

k_content == <<"c", "o", "n", "t", "e", "n", "t">>

k_action == <<"a", "c", "t", "i", "o", "n">>

k_target == <<"t", "a", "r", "g", "e", "t">>

k_metadata == <<"m", "e", "t", "a", "d", "a", "t", "a">>

k_timestamp == <<"t", "i", "m", "e", "s", "t", "a", "m", "p">>

k_old_identity == <<"o", "l", "d", "_", "i", "d", "e", "n", "t", "i", "t", "y">>

k_new_identity == <<"n", "e", "w", "_", "i", "d", "e", "n", "t", "i", "t", "y">>

k_rotated_at == <<"r", "o", "t", "a", "t", "e", "d", "_", "a", "t">>

k_text == <<"t", "e", "x", "t">>

(***************************************************************************)
(* class BorovkovProtocol.  An instance is [seed, seed_bytes]; a method    *)
(* takes it as self.  The clock values a method reads (int(time.time()))   *)
(* are parameters, in the order the method reads them.                     *)
(***************************************************************************)
NoInstance == [constructed |-> FALSE, seed |-> <<>>, seed_bytes |-> <<>>]

\* "not seed or len(seed) < 3", the length counted in bytes instead.
SeedTooShortInBytes(seed) == seed = <<>> \/ Len(encode(seed)) < MIN_SEED_LEN

SeedTooShort(seed) == seed = <<>> \/ Len(seed) < MIN_SEED_LEN

init(seed) ==
    IF SeedTooShort(seed) THEN Raise("ValueError")
    ELSE Ok([constructed |-> TRUE, seed |-> seed, seed_bytes |-> encode(seed)])

\* A digest of the content alone, the seed left out of the key.
sign_unkeyed(self, content) == hmac_hexdigest(<<>>, encode(content))

sign(self, content) == hmac_hexdigest(self.seed_bytes, encode(content))

verify(self, content, signature) == compare_digest(sign(self, content), signature)

identity_hash(self) == sign(self, I_EXIST)

\* The content signed as it is, not the encoding of title and content.
post_payload_raw(title, content) == content

post_payload(title, content) ==
    json_dumps(<<Str(k_title, title), Str(k_content, content)>>)

sign_post(self, title, content, t) ==
    [identity |-> identity_hash(self),
     signature |-> sign(self, post_payload(title, content)),
     timestamp |-> t,
     protocol_version |-> VERSION]

\* "metadata or {}": None and the empty dict both give the empty dict.
metadata_or_empty(metadata) == IF metadata.none THEN <<>> ELSE metadata.items

action_payload(action, target, metadata, t) ==
    json_dumps(<<Str(k_action, action), Str(k_target, target),
                 Obj(k_metadata, metadata_or_empty(metadata)),
                 Int(k_timestamp, t)>>)

sign_action(self, action, target, metadata, t1, t2) ==
    [identity |-> identity_hash(self),
     action_signature |-> sign(self, action_payload(action, target, metadata, t1)),
     timestamp |-> t2,
     protocol_version |-> VERSION]

rotation_payload(old_identity, new_identity, t) ==
    json_dumps(<<Str(k_old_identity, old_identity),
                 Str(k_new_identity, new_identity),
                 Int(k_rotated_at, t)>>)

\* The new seed itself put in the announcement, not its fingerprint.
sign_rotation_leaky(self, new_seed, t1, t2) ==
    LET new_bp == init(new_seed)
    IN  IF new_bp.raised # "none" THEN new_bp
        ELSE Ok([old_identity |-> identity_hash(self),
                 new_identity |-> new_seed,
                 rotation_signature |->
                     sign(self, rotation_payload(identity_hash(self), new_seed, t1)),
                 rotated_at |-> t2,
                 protocol_version |-> VERSION])

sign_rotation(self, new_seed, t1, t2) ==
    LET new_bp == init(new_seed)
    IN  IF new_bp.raised # "none" THEN new_bp
        ELSE Ok([old_identity |-> identity_hash(self),
                 new_identity |-> identity_hash(new_bp.ret),
                 rotation_signature |->
                     sign(self, rotation_payload(identity_hash(self),
                                                 identity_hash(new_bp.ret), t1)),
                 rotated_at |-> t2,
                 protocol_version |-> VERSION])

announcement_payload(old_identity, new_identity) ==
    json_dumps(<<Str(k_old_identity, old_identity),
                 Str(k_new_identity, new_identity)>>)

verify_rotation_announcement(old_identity, new_identity, rotation_sig, old_seed) ==
    LET old_bp == init(old_seed)
    IN  IF old_bp.raised # "none" THEN old_bp
        ELSE IF identity_hash(old_bp.ret) # old_identity THEN Ok(FALSE)
        ELSE verify(old_bp.ret, announcement_payload(old_identity, new_identity),
                    rotation_sig)

simple_payload(old_identity, new_identity) ==
    json_dumps(<<Str(k_new_identity, new_identity),
                 Str(k_old_identity, old_identity)>>)

sign_rotation_simple(self, new_seed, t) ==
    LET new_bp == init(new_seed)
    IN  IF new_bp.raised # "none" THEN new_bp
        ELSE Ok([old_identity |-> identity_hash(self),
                 new_identity |-> identity_hash(new_bp.ret),
                 rotation_signature |->
                     sign(self, simple_payload(identity_hash(self),
                                               identity_hash(new_bp.ret))),
                 rotated_at |-> t,
                 protocol_version |-> VERSION])

verify_rotation_simple(old_identity, new_identity, rotation_sig, old_seed) ==
    LET old_bp == init(old_seed)
    IN  IF old_bp.raised # "none" THEN old_bp
        ELSE IF identity_hash(old_bp.ret) # old_identity THEN Ok(FALSE)
        ELSE verify(old_bp.ret, simple_payload(old_identity, new_identity),
                    rotation_sig)

verify_chain(signatures, seed) ==
    LET b == init(seed)
    IN  IF b.raised # "none" THEN b
        ELSE Ok(\A i \in 1..Len(signatures) :
                    signatures[i].identity = identity_hash(b.ret))

(***************************************************************************)
(* Inputs.                                                                 *)
(***************************************************************************)
Rep(ch, n) == [i \in 1..n |-> ch]

\* Seeds of every length up to the bound, and seeds of non-ASCII characters
\* on both sides of the minimum length.
SeedInputs ==
    {Rep("k", n) : n \in 0..MaxSeedLen}
    \cup {Rep("U+00E9", n) : n \in {MIN_SEED_LEN - 1, MIN_SEED_LEN}}

ValidSeeds == {s \in SeedInputs : init(s).raised = "none"}

Instance(s) == init(s).ret

Texts == {<<>>, <<"a">>, <<"\"">>, <<"U+00E9">>, I_EXIST}

ContentInputs == Texts \cup {post_payload(<<"a">>, <<>>)}

Names == {<<"a">>, <<"b">>}

None == [none |-> TRUE, items |-> <<>>]

MetadataInputs ==
    {None, [none |-> FALSE, items |-> <<>>],
     [none |-> FALSE, items |-> <<Str(k_text, <<"a">>)>>]}

Clocks == 0..MaxClock

\* Candidates that are no digest: empty, too short, of the digest's length
\* but all zeros, not hexadecimal, not ASCII.
MalformedInputs ==
    {<<>>, <<"0", "0">>, Rep("0", DIGEST_HEX_LEN), <<"z">>, <<"U+00E9">>}

SignatureInputs ==
    {sign(Instance(s), c) : s \in ValidSeeds, c \in ContentInputs}
    \cup MalformedInputs

IdentityInputs ==
    {identity_hash(Instance(s)) : s \in ValidSeeds} \cup {<<"U+00E9">>}

RotationSigInputs ==
    {sign_rotation_simple(Instance(s), n, 0).ret.rotation_signature :
        s \in ValidSeeds, n \in ValidSeeds}
    \cup {sign_rotation(Instance(s), n, t, t).ret.rotation_signature :
        s \in ValidSeeds, n \in ValidSeeds, t \in Clocks}
    \cup {<<"0", "0">>, <<"U+00E9">>}

\* Records a caller may hold: posts and actions of every valid seed, and a
\* record that carries an identity with a signature nobody computed.
ChainRecords ==
    {sign_post(Instance(s), <<"a">>, <<>>, 0) : s \in ValidSeeds}
    \cup {sign_action(Instance(s), <<"a">>, <<"b">>, None, 0, 0) : s \in ValidSeeds}
    \cup {[identity |-> identity_hash(Instance(s)),
           signature |-> Rep("0", DIGEST_HEX_LEN)] : s \in ValidSeeds}

Chains == UNION {[1..n -> ChainRecords] : n \in 0..MaxChain}

(***************************************************************************)
(* The state: the instance the caller holds (bp), the wall clock, and the  *)
(* call that has just returned or raised, with its arguments and its       *)
(* outcome.  The program is sequential: a call starts when the caller is   *)
(* between calls (Idle), and Return is the caller going on after it.       *)
(***************************************************************************)
Called(op, args, res) ==
    [op |-> op, args |-> args, raised |-> res.raised, ret |-> res.ret]

NoCall == Called("none", <<>>, Ok(<<>>))

Idle == call.op = "none"

Init ==
    /\ bp = NoInstance
    /\ clock = 0
    /\ call = NoCall

Return ==
    /\ ~Idle
    /\ call' = NoCall
    /\ UNCHANGED <<bp, clock>>

\* bp = BorovkovProtocol(seed)
Construct ==
    /\ Idle
    /\ \E seed \in SeedInputs :
           LET r == init(seed)
           IN  /\ bp' = IF r.raised = "none" THEN r.ret ELSE bp
               /\ call' = Called("construct", [seed |-> seed], r)
    /\ UNCHANGED clock

Sign ==
    /\ Idle /\ bp.constructed
    /\ \E content \in ContentInputs :
           call' = Called("sign", [content |-> content], Ok(sign(bp, content)))
    /\ UNCHANGED <<bp, clock>>

Verify ==
    /\ Idle /\ bp.constructed
    /\ \E content \in ContentInputs, signature \in SignatureInputs :
           call' = Called("verify", [content |-> content, signature |-> signature],
                          verify(bp, content, signature))
    /\ UNCHANGED <<bp, clock>>

IdentityHash ==
    /\ Idle /\ bp.constructed
    /\ call' = Called("identity_hash", <<>>, Ok(identity_hash(bp)))
    /\ UNCHANGED <<bp, clock>>

SignPost ==
    /\ Idle /\ bp.constructed
    /\ \E title \in Texts, content \in Texts, t \in clock..MaxClock :
           /\ call' = Called("sign_post", [title |-> title, content |-> content],
                             Ok(sign_post(bp, title, content, t)))
           /\ clock' = t
    /\ UNCHANGED bp

SignAction ==
    /\ Idle /\ bp.constructed
    /\ \E action \in Names, target \in Names, metadata \in MetadataInputs,
          t1 \in clock..MaxClock :
         \E t2 \in t1..MaxClock :
           /\ call' = Called("sign_action",
                             [action |-> action, target |-> target,
                              metadata |-> metadata],
                             Ok(sign_action(bp, action, target, metadata, t1, t2)))
           /\ clock' = t2
    /\ UNCHANGED bp

SignRotation ==
    /\ Idle /\ bp.constructed
    /\ \E new_seed \in SeedInputs, t1 \in clock..MaxClock :
         \E t2 \in t1..MaxClock :
           LET r == sign_rotation(bp, new_seed, t1, t2)
           IN  /\ call' = Called("sign_rotation", [new_seed |-> new_seed], r)
               /\ clock' = IF r.raised = "none" THEN t2 ELSE clock
    /\ UNCHANGED bp

SignRotationSimple ==
    /\ Idle /\ bp.constructed
    /\ \E new_seed \in SeedInputs, t \in clock..MaxClock :
           LET r == sign_rotation_simple(bp, new_seed, t)
           IN  /\ call' = Called("sign_rotation_simple", [new_seed |-> new_seed], r)
               /\ clock' = IF r.raised = "none" THEN t ELSE clock
    /\ UNCHANGED bp

RotationArgs(oi, ni, sig, seed, after) ==
    [old_identity |-> oi, new_identity |-> ni, rotation_sig |-> sig,
     old_seed |-> seed, after |-> after]

\* verify_rotation_announcement on any arguments.
VerifyRotationAnnouncement ==
    /\ Idle
    /\ \E oi \in IdentityInputs, ni \in IdentityInputs,
          sig \in RotationSigInputs, seed \in SeedInputs :
           call' = Called("verify_rotation_announcement",
                          RotationArgs(oi, ni, sig, seed, "none"),
                          verify_rotation_announcement(oi, ni, sig, seed))
    /\ UNCHANGED <<bp, clock>>

\* cli.py: rotate <old_seed> <new_seed>, then verify-rotation on the fields
\* of the announcement it printed and the old seed.
CmdVerifyRotation ==
    /\ call.op = "sign_rotation" /\ call.raised = "none"
    /\ call' = Called("verify_rotation_announcement",
                      RotationArgs(call.ret.old_identity, call.ret.new_identity,
                                   call.ret.rotation_signature, bp.seed,
                                   "sign_rotation"),
                      verify_rotation_announcement(
                          call.ret.old_identity, call.ret.new_identity,
                          call.ret.rotation_signature, bp.seed))
    /\ UNCHANGED <<bp, clock>>

\* verify_rotation_simple on any arguments.
VerifyRotationSimple ==
    /\ Idle
    /\ \E oi \in IdentityInputs, ni \in IdentityInputs,
          sig \in RotationSigInputs, seed \in SeedInputs :
           call' = Called("verify_rotation_simple",
                          RotationArgs(oi, ni, sig, seed, "none"),
                          verify_rotation_simple(oi, ni, sig, seed))
    /\ UNCHANGED <<bp, clock>>

\* verify_rotation_simple on the fields of the announcement just signed.
VerifySimpleAfterSign ==
    /\ call.op = "sign_rotation_simple" /\ call.raised = "none"
    /\ call' = Called("verify_rotation_simple",
                      RotationArgs(call.ret.old_identity, call.ret.new_identity,
                                   call.ret.rotation_signature, bp.seed,
                                   "sign_rotation_simple"),
                      verify_rotation_simple(
                          call.ret.old_identity, call.ret.new_identity,
                          call.ret.rotation_signature, bp.seed))
    /\ UNCHANGED <<bp, clock>>

VerifyChain ==
    /\ Idle
    /\ \E signatures \in Chains, seed \in SeedInputs :
           call' = Called("verify_chain",
                          [signatures |-> signatures, seed |-> seed],
                          verify_chain(signatures, seed))
    /\ UNCHANGED <<bp, clock>>

Next ==
    \/ Construct
    \/ Sign
    \/ Verify
    \/ IdentityHash
    \/ SignPost
    \/ SignAction
    \/ SignRotation
    \/ SignRotationSimple
    \/ VerifyRotationAnnouncement
    \/ CmdVerifyRotation
    \/ VerifyRotationSimple
    \/ VerifySimpleAfterSign
    \/ VerifyChain
    \/ Return

Spec == Init /\ [][Next]_vars

(***************************************************************************)
(* Properties.                                                             *)
(***************************************************************************)
Returned(v) == call.raised = "none" /\ call.ret = v

Accepted == Returned(TRUE)

Rejected == Returned(FALSE)

\* C1: the announcement sign_rotation returns is accepted by
\* verify_rotation_announcement on its own fields and the old seed.
C1_RotationRoundTrip ==
    (call.op = "verify_rotation_announcement" /\ call.args.after = "sign_rotation")
        => Accepted

\* The announcement sign_rotation_simple makes with old seed s for new seed n.
SimpleAnnouncement(s, n) == sign_rotation_simple(Instance(s), n, 0).ret

\* C2: verify_rotation_simple accepts the announcement sign_rotation_simple
\* made, and returns false with another seed, another new identity or
\* another signature in its place; the order the payload fields are written
\* in makes no difference.
C2_SimpleRotation ==
    call.op = "verify_rotation_simple" =>
        /\ call.args.after = "sign_rotation_simple" => Accepted
        /\ \A s \in ValidSeeds, n \in ValidSeeds :
              LET r == SimpleAnnouncement(s, n)
                  a == call.args
              IN  /\ ( /\ a.old_identity = r.old_identity
                       /\ a.new_identity = r.new_identity
                       /\ a.rotation_sig = r.rotation_signature
                       /\ a.old_seed # s ) => Rejected
                  /\ ( /\ a.old_identity = r.old_identity
                       /\ a.new_identity # r.new_identity
                       /\ a.rotation_sig = r.rotation_signature
                       /\ a.old_seed = s ) => Rejected
                  /\ ( /\ a.old_identity = r.old_identity
                       /\ a.new_identity = r.new_identity
                       /\ a.rotation_sig # r.rotation_signature
                       /\ a.old_seed = s ) => Rejected
        /\ LET a == call.args
               other == verify_rotation_announcement(
                            a.old_identity, a.new_identity, a.rotation_sig, a.old_seed)
           IN  call.raised = other.raised /\ call.ret = other.ret

\* C3: verify returns true exactly for the candidate that is sign(content)
\* of the instance; a signature made with another seed or over another
\* content is returned false.
C3_VerifySound ==
    call.op = "verify" =>
        /\ Accepted <=> call.args.signature = sign(bp, call.args.content)
        /\ \A s \in ValidSeeds, c \in ContentInputs :
              ( /\ s # bp.seed \/ c # call.args.content
                /\ call.args.signature = sign(Instance(s), c) ) => Rejected

C3_Witness ==
    /\ call.op = "verify"
    /\ \E s \in ValidSeeds \ {bp.seed} :
           call.args.signature = sign(Instance(s), call.args.content)
    /\ Rejected

\* C4: verify returns false, and raises nothing, on a candidate of the wrong
\* length or with characters outside 0-9a-f.
C4_VerifyMalformed ==
    (call.op = "verify" /\ call.args.signature \in MalformedInputs) => Rejected

StaticVerifiers ==
    {"verify_chain", "verify_rotation_announcement", "verify_rotation_simple"}

\* C5: verify_chain, verify_rotation_announcement and verify_rotation_simple
\* return true or false on every input and never raise.
C5_VerifiersNeverRaise ==
    call.op \in StaticVerifiers => (Accepted \/ Rejected)

C4_Witness ==
    /\ call.op = "verify" /\ call.args.signature = <<"0", "0">> /\ Rejected

InstanceMethods ==
    {"sign", "verify", "identity_hash", "sign_post", "sign_action",
     "sign_rotation", "sign_rotation_simple"}

RotationMethods == {"sign_rotation", "sign_rotation_simple"}

\* Construction succeeds for a seed of 3 or more characters and raises the
\* invalid-seed error for a shorter one.
ConstructionBoundary ==
    call.op = "construct" =>
        IF Len(call.args.seed) >= MIN_SEED_LEN
        THEN call.raised = "none" /\ bp.constructed /\ bp.seed = call.args.seed
        ELSE call.raised = "ValueError"

\* C6: construction succeeds for every seed of 3 or more characters and
\* raises the invalid-seed error for every shorter seed, and no operation on
\* a constructed instance raises that error.
C6_SeedBoundary ==
    /\ ConstructionBoundary
    /\ call.op \in InstanceMethods => call.raised # "ValueError"

\* C6, amended: construction succeeds for every seed of 3 or more characters
\* and raises the invalid-seed error for every shorter seed; of the
\* operations on a constructed instance only sign_rotation and
\* sign_rotation_simple raise it, and exactly when their new_seed is shorter
\* than 3 characters.
C6_SeedBoundaryAmended ==
    /\ ConstructionBoundary
    /\ (call.op \in InstanceMethods /\ call.raised = "ValueError")
           => call.op \in RotationMethods
    /\ call.op \in RotationMethods =>
           (call.raised = "ValueError" <=> Len(call.args.new_seed) < MIN_SEED_LEN)

C6_Witness ==
    /\ call.op = "sign_rotation"
    /\ call.raised = "ValueError"
    /\ call.args.new_seed = <<"U+00E9", "U+00E9">>

\* For each seed, the records sign_post and sign_action of its instance return.
ProducedBy ==
    [s \in ValidSeeds |->
    {sign_post(Instance(s), title, content, t) :
        title \in Texts, content \in Texts, t \in Clocks}
    \cup {sign_action(Instance(s), action, target, metadata, t1, t2) :
        action \in Names, target \in Names, metadata \in MetadataInputs,
        t1 \in Clocks, t2 \in Clocks}]

IdentityOnly(signatures) ==
    [i \in 1..Len(signatures) |-> [identity |-> signatures[i].identity]]

\* What C7 says of a call with a seed of 3 or more characters.
ChainVerdict ==
    LET a == call.args
    IN  /\ Accepted \/ Rejected
        /\ Accepted <=> \A i \in 1..Len(a.signatures) :
               a.signatures[i].identity = identity_hash(Instance(a.seed))
        /\ (\A i \in 1..Len(a.signatures) : a.signatures[i] \in ProducedBy[a.seed])
               => Accepted
        /\ (\E i \in 1..Len(a.signatures), s \in ValidSeeds \ {a.seed} :
               a.signatures[i] \in ProducedBy[s]) => Rejected
        /\ LET other == verify_chain(IdentityOnly(a.signatures), a.seed)
           IN  call.raised = other.raised /\ call.ret = other.ret

\* C7: verify_chain returns true exactly when every record's identity is the
\* fingerprint of the seed: true for the empty sequence with any seed, true
\* for records all made by that seed, false with one record of another seed,
\* whatever the signature fields hold.
C7_VerifyChain ==
    call.op = "verify_chain" =>
        /\ call.args.signatures = <<>> => Accepted
        /\ call.args.seed \in ValidSeeds => ChainVerdict

\* C7 on the seeds an instance can be constructed from.
C7_OnValidSeeds ==
    (call.op = "verify_chain" /\ call.args.seed \in ValidSeeds) => ChainVerdict

\* C2 on the seeds an instance can be constructed from and ASCII signatures.
C2_OnValidInputs ==
    ( /\ call.op = "verify_rotation_simple"
      /\ call.args.old_seed \in ValidSeeds
      /\ IsAscii(call.args.rotation_sig) ) => C2_SimpleRotation

\* Every message the operations sign, and every digest they can return.
Messages ==
    ContentInputs
    \cup {post_payload(title, content) : title \in Texts, content \in Texts}
    \cup {action_payload(action, target, metadata, t) :
            action \in Names, target \in Names, metadata \in MetadataInputs,
            t \in Clocks}
    \cup {rotation_payload(identity_hash(Instance(s)), identity_hash(Instance(n)), t) :
            s \in ValidSeeds, n \in ValidSeeds, t \in Clocks}
    \cup {simple_payload(identity_hash(Instance(s)), identity_hash(Instance(n))) :
            s \in ValidSeeds, n \in ValidSeeds}

MacOutputs == {hmac_hexdigest(encode(s), encode(m)) : s \in ValidSeeds, m \in Messages}

Derived(x) == x \in MacOutputs /\ x # bp.seed

\* C8: what sign, identity_hash, sign_post, sign_action, sign_rotation and
\* sign_rotation_simple return holds MAC outputs, clock values and the
\* version constant only; no field is the signing seed or the new seed.
C8_NoSeedInOutput ==
    /\ call.op \in {"sign", "identity_hash"} => Derived(call.ret)
    /\ call.op = "sign_post" =>
           /\ DOMAIN call.ret =
                  {"identity", "signature", "timestamp", "protocol_version"}
           /\ Derived(call.ret.identity) /\ Derived(call.ret.signature)
           /\ call.ret.timestamp \in Clocks
           /\ call.ret.protocol_version = VERSION
    /\ call.op = "sign_action" =>
           /\ DOMAIN call.ret =
                  {"identity", "action_signature", "timestamp", "protocol_version"}
           /\ Derived(call.ret.identity) /\ Derived(call.ret.action_signature)
           /\ call.ret.timestamp \in Clocks
           /\ call.ret.protocol_version = VERSION
    /\ (call.op \in RotationMethods /\ call.raised = "none") =>
           /\ DOMAIN call.ret =
                  {"old_identity", "new_identity", "rotation_signature",
                   "rotated_at", "protocol_version"}
           /\ \A x \in {call.ret.old_identity, call.ret.new_identity,
                         call.ret.rotation_signature} :
                  Derived(x) /\ x # call.args.new_seed
           /\ call.ret.rotated_at \in Clocks
           /\ call.ret.protocol_version = VERSION

C8_Witness ==
    /\ call.op = "sign_rotation" /\ call.raised = "none"
    /\ call.args.new_seed # bp.seed

\* C9: the clock value the signature covers is the timestamp (rotated_at)
\* of the record returned, in sign_action and in sign_rotation.
C9_OneTimestamp ==
    /\ call.op = "sign_action" =>
           call.ret.action_signature =
               sign(bp, action_payload(call.args.action, call.args.target,
                                       call.args.metadata, call.ret.timestamp))
    /\ (call.op = "sign_rotation" /\ call.raised = "none") =>
           call.ret.rotation_signature =
               sign(bp, rotation_payload(call.ret.old_identity,
                                         call.ret.new_identity, call.ret.rotated_at))

PostSignatures(self) ==
    {sign(self, post_payload(title, content)) : title \in Texts, content \in Texts}

ActionSignatures(self) ==
    {sign(self, action_payload(action, target, metadata, t)) :
        action \in Names, target \in Names, metadata \in MetadataInputs,
        t \in Clocks}

RotationSignatures(self) ==
    {sign(self, rotation_payload(identity_hash(self), identity_hash(Instance(n)), t)) :
        n \in ValidSeeds, t \in Clocks}
    \cup {sign(self, simple_payload(identity_hash(self), identity_hash(Instance(n)))) :
        n \in ValidSeeds}

\* C10: plain sign(content) never returns the identity fingerprint, nor the
\* signature of a post, an action or a rotation record of the same seed.
C10_PlainSignSeparated ==
    call.op = "sign" =>
        call.ret \notin {identity_hash(bp)} \cup PostSignatures(bp)
                        \cup ActionSignatures(bp) \cup RotationSignatures(bp)

\* C10, amended: for one seed the identity fingerprint, the signature of a
\* post, the signature of an action and the signature of a rotation are
\* never equal to a value of another of these kinds; plain sign is not
\* separated from them: it returns the fingerprint for "I exist" and the
\* signature of a post for the encoding of its title and content.
C10_ShapesSeparated ==
    /\ (call.op = "sign" /\ call.args.content = I_EXIST)
           => call.ret = identity_hash(bp)
    /\ (call.op = "sign" /\ call.args.content = post_payload(<<"a">>, <<>>))
           => call.ret = sign_post(bp, <<"a">>, <<>>, 0).signature
    /\ call.op = "identity_hash" =>
           call.ret \notin PostSignatures(bp) \cup ActionSignatures(bp)
                           \cup RotationSignatures(bp)
    /\ call.op = "sign_post" =>
           call.ret.signature \notin {identity_hash(bp)} \cup ActionSignatures(bp)
                                     \cup RotationSignatures(bp)
    /\ call.op = "sign_action" =>
           call.ret.action_signature \notin {identity_hash(bp)} \cup PostSignatures(bp)
                                            \cup RotationSignatures(bp)
    /\ (call.op \in RotationMethods /\ call.raised = "none") =>
           call.ret.rotation_signature \notin {identity_hash(bp)} \cup PostSignatures(bp)
                                              \cup ActionSignatures(bp)

C10_Witness ==
    /\ call.op = "sign_post"
    /\ call.args.content = I_EXIST
    /\ call.ret.signature # identity_hash(bp)

====
